---- MODULE Spec2Model ----
(***************************************************************************)
(* A model of app.py: the request handlers of the download manager, the   *)
(* managed directory they work on, the memoised video search, the cached  *)
(* file listing and the request rate limiter.                              *)
(*                                                                         *)
(* Strings are sequences of one-character strings, so that strip(),       *)
(* lower(), the substring test and the splitting of a path at "/" are     *)
(* computed and not assumed.  A path is a sequence of components counted  *)
(* from the filesystem root.  Symbolic links are not modelled.            *)
(***************************************************************************)
EXTENDS Integers, Sequences, FiniteSets, TLC

VARIABLES
    now,          \* the clock, in seconds
    fs,           \* the filesystem: path -> entry
    searchCache,  \* cache.memoize store of search_youtube: query -> entry
    listCache,    \* cache.cached store of api_get_files: query string -> entry
    limits,       \* limiter storage: <<client, scope>> -> window counter
    pc,           \* per worker thread: where it is inside search_youtube
    resp,         \* the response produced by the last step
    searchLog,    \* history: per query, the answered searches
    engineLog     \* history: per client, the times the download engine ran

vars == <<now, fs, searchCache, listCache, limits, pc, resp, searchLog, engineLog>>

----------------------------------------------------------------------------
(* Strings: a string is a tuple of characters *)

Space == " "
Slash == "/"
Dot == <<".">>
DotDot == <<".", ".">>

\* str.lower() on one character
LowerChar(c) == CASE c = "A" -> "a" [] c = "B" -> "b" [] OTHER -> c

\* str.lower()
Lower(s) == [i \in 1..Len(s) |-> LowerChar(s[i])]

RECURSIVE LStrip(_)
LStrip(s) == IF s # <<>> /\ Head(s) = Space THEN LStrip(Tail(s)) ELSE s

RECURSIVE RStrip(_)
RStrip(s) ==
    IF s # <<>> /\ s[Len(s)] = Space THEN RStrip(SubSeq(s, 1, Len(s) - 1)) ELSE s

\* str.strip()
Strip(s) == RStrip(LStrip(s))

\* the Python test `sub in s`
Contains(sub, s) ==
    \E i \in 1..(Len(s) + 1) :
        /\ i + Len(sub) - 1 <= Len(s)
        /\ SubSeq(s, i, i + Len(sub) - 1) = sub

RECURSIVE SplitFrom(_, _, _)
SplitFrom(s, i, cur) ==
    IF i > Len(s) THEN <<cur>>
    ELSE IF s[i] = Slash THEN <<cur>> \o SplitFrom(s, i + 1, <<>>)
    ELSE SplitFrom(s, i + 1, Append(cur, s[i]))

\* s.split("/")
Split(s) == SplitFrom(s, 1, <<>>)

RECURSIVE SelectComps(_)
SelectComps(cs) ==
    IF cs = <<>> THEN <<>>
    ELSE IF Head(cs) = <<>> \/ Head(cs) = Dot THEN SelectComps(Tail(cs))
    ELSE <<Head(cs)>> \o SelectComps(Tail(cs))

\* the components pathlib keeps of a path string: empty ones and "." go,
\* ".." stays
Parts(s) == SelectComps(Split(s))

IsAbs(s) == s # <<>> /\ Head(s) = Slash

RECURSIVE NormComps(_, _)
NormComps(cs, acc) ==
    IF cs = <<>> THEN acc
    ELSE IF Head(cs) = DotDot /\ acc # <<>> /\ acc[Len(acc)] # DotDot
         THEN NormComps(Tail(cs), SubSeq(acc, 1, Len(acc) - 1))
    ELSE NormComps(Tail(cs), Append(acc, Head(cs)))

\* posixpath.normpath of a relative path, as components: ".." cancels the
\* component before it, lexically
NormParts(s) == NormComps(Parts(s), <<>>)

----------------------------------------------------------------------------
(* The filesystem *)

Day == 24 * 60 * 60

HomeDir == << <<"h">> >>
DOWNLOAD_FOLDER == HomeDir \o << <<"d", "l">> >>

SubDirName == <<"d">>
NestedName == <<"b">>
SecretName == <<"s">>

\* the names the download engine gives its output files
EngineNames == { <<"a">>, <<"A", "b">> }

\* the names of the direct children of the managed directory
ChildNames == EngineNames \cup { <<"b">>, SubDirName }

Child(n) == Append(DOWNLOAD_FOLDER, n)

NestedPath == Append(Child(SubDirName), NestedName)
SecretPath == Append(HomeDir, SecretName)

Paths == {HomeDir, DOWNLOAD_FOLDER, SecretPath, NestedPath}
            \cup {Child(n) : n \in ChildNames}

Data == {"x", "y"}

NoEntry == [kind |-> "none", mtime |-> 0, data |-> "", locked |-> FALSE]
DirEntry == [kind |-> "dir", mtime |-> 0, data |-> "", locked |-> FALSE]
FileEntry(m, d, l) == [kind |-> "file", mtime |-> m, data |-> d, locked |-> l]

Parent(p) == IF p = <<>> THEN <<>> ELSE SubSeq(p, 1, Len(p) - 1)

IsDirIn(f, p) == p = <<>> \/ (p \in Paths /\ f[p].kind = "dir")
IsFileIn(f, p) == p \in Paths /\ f[p].kind = "file"
ExistsIn(f, p) == IsDirIn(f, p) \/ IsFileIn(f, p)

NoPath == << <<"?">> >>

\* the kernel's walk along the components of a path: every step but the last
\* must start in an existing directory, ".." steps to the parent
RECURSIVE Walk(_, _, _)
Walk(f, cur, cs) ==
    IF cs = <<>> THEN cur
    ELSE IF ~IsDirIn(f, cur) THEN NoPath
    ELSE IF Head(cs) = DotDot THEN Walk(f, Parent(cur), Tail(cs))
    ELSE Walk(f, Append(cur, Head(cs)), Tail(cs))

\* DOWNLOAD_FOLDER / name, resolved: an absolute name replaces the folder
Join(f, name) ==
    IF IsAbs(name) THEN Walk(f, <<>>, Parts(name))
    ELSE Walk(f, DOWNLOAD_FOLDER, Parts(name))

\* filepath.exists() and filepath.is_file() of DOWNLOAD_FOLDER / name
PathIsFile(f, name) == ExistsIn(f, Join(f, name)) /\ IsFileIn(f, Join(f, name))

\* werkzeug's safe_join, called by send_from_directory: the normalised name
\* may not be absolute nor start with "..", else the result is None
SafeJoin(f, name) ==
    LET cs == IF name = <<>> THEN <<>> ELSE NormParts(name)
    IN IF IsAbs(name) \/ (cs # <<>> /\ Head(cs) = DotDot) THEN NoPath
       ELSE Walk(f, DOWNLOAD_FOLDER, cs)

\* the regular files that are direct children of the managed directory
DirectFiles(f) == {n \in ChildNames : f[Child(n)].kind = "file"}
SubDirs(f) == {n \in ChildNames : f[Child(n)].kind = "dir"}

----------------------------------------------------------------------------
(* The rate limiter: Limiter(get_remote_address, default_limits, memory://) *)
(* with the default fixed-window strategy.  A window opens at the first hit *)
(* counted after the previous one ended and lasts one minute.               *)

Minute == 60

DefaultLimit == 10
DownloadLimit == 5

Scopes == {"index", "download", "api_files", "api_cleanup"}

NoWindow == [count |-> 0, expires |-> 0]

\* the counter a key holds at time t: an ended window counts nothing
Current(lim, key, t) == IF lim[key].expires <= t THEN 0 ELSE lim[key].count

\* one hit of `key` against `amount` per minute: the counter is incremented
\* first and compared afterwards
Hit(lim, key, amount, t) ==
    LET cur == Current(lim, key, t)
        exp == IF cur = 0 THEN t + Minute ELSE lim[key].expires
    IN [ok    |-> cur + 1 <= amount,
        store |-> [lim EXCEPT ![key] = [count |-> cur + 1, expires |-> exp]]]

\* the storage's expiry timer: windows that have ended are dropped
Expire(lim, t) ==
    [k \in DOMAIN lim |-> IF lim[k].expires <= t THEN NoWindow ELSE lim[k]]

----------------------------------------------------------------------------
(* File repository handlers.  Each takes `lim`, the limiter storage as the  *)
(* request middleware left it.                                              *)

\* handle_file_download
HandleFileDownload(raw, lim) ==
    LET filename == Strip(raw)
        sent == SafeJoin(fs, filename)
    IN /\ resp' =
            IF filename = <<>>
            THEN [op |-> "download_file", arg |-> raw, status |-> 400]
            ELSE IF ~PathIsFile(fs, filename)
            THEN [op |-> "download_file", arg |-> raw, status |-> 404]
            ELSE IF ~IsFileIn(fs, sent)
            THEN [op |-> "download_file", arg |-> raw, status |-> 404]
            ELSE [op |-> "download_file", arg |-> raw, status |-> 200,
                  path |-> sent, body |-> fs[sent].data,
                  download_name |-> filename]
       /\ limits' = lim
       /\ UNCHANGED <<now, fs, searchCache, listCache, pc, searchLog, engineLog>>

\* the loop of handle_zip_download: zf.write(filepath, filename) for every
\* name that is an existing file; the archive name is the normalised name
RECURSIVE ZipEntries(_, _)
ZipEntries(f, names) ==
    IF names = <<>> THEN <<>>
    ELSE LET name == Head(names)
             rest == ZipEntries(f, Tail(names))
         IN IF PathIsFile(f, name)
            THEN << [arcname |-> NormParts(name), path |-> Join(f, name),
                     data |-> f[Join(f, name)].data] >> \o rest
            ELSE rest

\* handle_zip_download with the test of the unresolved selection put on the
\* archive instead of on the names
HandleZipDownloadByEntries(names, lim) ==
    /\ resp' =
         IF ZipEntries(fs, names) = <<>>
         THEN [op |-> "zip_and_download", names |-> names, status |-> 400]
         ELSE [op |-> "zip_and_download", names |-> names, status |-> 200,
               entries |-> ZipEntries(fs, names)]
    /\ limits' = lim
    /\ UNCHANGED <<now, fs, searchCache, listCache, pc, searchLog, engineLog>>

\* handle_zip_download
HandleZipDownload(names, lim) ==
    /\ resp' =
         IF names = <<>>
         THEN [op |-> "zip_and_download", names |-> names, status |-> 400]
         ELSE [op |-> "zip_and_download", names |-> names, status |-> 200,
               entries |-> ZipEntries(fs, names)]
    /\ limits' = lim
    /\ UNCHANGED <<now, fs, searchCache, listCache, pc, searchLog, engineLog>>

\* get_file_info
FileInfo(f, n) ==
    [filename |-> n, modified |-> f[Child(n)].mtime, selected |-> FALSE]

\* the filter of handle_get_files without the lowering of the file name
ListedCaseSensitive(f, query) ==
    {n \in DirectFiles(f) : ~(query # <<>> /\ ~Contains(query, n))}

\* the names handle_get_files keeps: regular files, filtered by the query
Listed(f, query) ==
    {n \in DirectFiles(f) : ~(query # <<>> /\ ~Contains(query, Lower(n)))}

\* the lists handle_get_files can build: one record per kept name, newest
\* first; iterdir() fixes no order among equal timestamps
Listings(f, query) ==
    LET S == Listed(f, query)
        k == Cardinality(S)
    IN {[i \in 1..k |-> FileInfo(f, o[i])] : o \in
          {o \in [1..k -> S] :
              /\ \A i, j \in 1..k : i # j => o[i] # o[j]
              /\ \A i, j \in 1..k :
                    i < j => f[Child(o[i])].mtime >= f[Child(o[j])].mtime}}

\* handle_get_files
HandleGetFiles(formQuery, lim) ==
    LET query == Strip(Lower(formQuery))
    IN /\ \E L \in Listings(fs, query) :
            resp' = [op |-> "get_files", arg |-> formQuery, status |-> 200,
                     files |-> L, cached |-> FALSE]
       /\ limits' = lim
       /\ UNCHANGED <<now, fs, searchCache, listCache, pc, searchLog, engineLog>>

ListTimeout == 60

NoCached == [present |-> FALSE, expires |-> 0, value |-> <<>>]

\* SimpleCache.get: an entry is served while its expiry time is ahead
CacheHit(c, key, t) == c[key].present /\ c[key].expires > t

\* api_get_files under cache.cached(timeout=60, query_string=True): q is read
\* and dropped; handle_get_files reads the (empty) form of the GET request
ApiGetFiles(q, lim) ==
    /\ IF CacheHit(listCache, q, now)
       THEN /\ resp' = [op |-> "api_files", arg |-> q, status |-> 200,
                        files |-> listCache[q].value, cached |-> TRUE]
            /\ UNCHANGED listCache
       ELSE \E L \in Listings(fs, Strip(Lower(<<>>))) :
            /\ resp' = [op |-> "api_files", arg |-> q, status |-> 200,
                        files |-> L, cached |-> FALSE]
            /\ listCache' = [listCache EXCEPT ![q] =
                   [present |-> TRUE, expires |-> now + ListTimeout, value |-> L]]
    /\ limits' = lim
    /\ UNCHANGED <<now, fs, searchCache, pc, searchLog, engineLog>>

\* the loop of api_cleanup with the try around the whole loop: the first
\* failure ends it
RECURSIVE CleanupLoopAbort(_, _, _)
CleanupLoopAbort(order, cutoff, st) ==
    IF order = <<>> THEN st
    ELSE LET n == Head(order)
             e == st[1][Child(n)]
         IN IF e.kind = "file" /\ e.mtime < cutoff
            THEN IF e.locked
                 THEN <<st[1], st[2], Append(st[3], <<"unlink failed", n>>)>>
                 ELSE CleanupLoopAbort(Tail(order), cutoff,
                        <<[st[1] EXCEPT ![Child(n)] = NoEntry],
                          Append(st[2], n), st[3]>>)
            ELSE CleanupLoopAbort(Tail(order), cutoff, st)

\* the loop of api_cleanup over iterdir(): st = <<filesystem, deleted, errors>>
RECURSIVE CleanupLoop(_, _, _)
CleanupLoop(order, cutoff, st) ==
    IF order = <<>> THEN st
    ELSE LET n == Head(order)
             e == st[1][Child(n)]
         IN IF e.kind = "file" /\ e.mtime < cutoff
            THEN IF e.locked
                 THEN CleanupLoop(Tail(order), cutoff,
                        <<st[1], st[2], Append(st[3], <<"unlink failed", n>>)>>)
                 ELSE CleanupLoop(Tail(order), cutoff,
                        <<[st[1] EXCEPT ![Child(n)] = NoEntry],
                          Append(st[2], n), st[3]>>)
            ELSE CleanupLoop(Tail(order), cutoff, st)

\* request.form.get('days', 30)
DefaultDays == 30

\* the orders iterdir() can yield the children in
Orders(f) ==
    LET S == DirectFiles(f) \cup SubDirs(f)
        k == Cardinality(S)
    IN {o \in [1..k -> S] : \A i, j \in 1..k : i # j => o[i] # o[j]}

\* api_cleanup
ApiCleanup(days, lim) ==
    LET cutoff == now - days * Day
    IN /\ \E order \in Orders(fs) :
            LET out == CleanupLoop(order, cutoff, <<fs, <<>>, <<>> >>)
            IN /\ fs' = out[1]
               /\ resp' = [op |-> "cleanup", days |-> days, status |-> 200,
                           deleted |-> out[2], errors |-> out[3],
                           message |-> Len(out[2])]
       /\ limits' = lim
       /\ UNCHANGED <<now, searchCache, listCache, pc, searchLog, engineLog>>

----------------------------------------------------------------------------
(* Download gateway *)

\* the children glob('*') finds with the latest modification time
Newest(f) ==
    LET S == DirectFiles(f) \cup SubDirs(f)
    IN {n \in S : \A m \in S : f[Child(m)].mtime <= f[Child(n)].mtime}

\* download_youtube_video: the engine fails, or writes one file into the
\* managed directory (over a file of the same name, if any); the filename
\* reported is the engine's or that of a most recently modified child
DownloadYoutubeVideo(c, names, datas) ==
    /\ \/ /\ resp' = [op |-> "download_youtube", client |-> c, status |-> 200,
                      outcome |-> "error"]
          /\ UNCHANGED fs
       \/ \E n \in names, d \in datas :
             LET f2 == [fs EXCEPT ![Child(n)] = FileEntry(now, d, FALSE)]
             IN /\ fs' = f2
                /\ \E r \in {n} \cup Newest(f2) :
                      resp' = [op |-> "download_youtube", client |-> c,
                               status |-> 200, outcome |-> "success",
                               filename |-> r]
    /\ UNCHANGED <<now, searchCache, listCache, pc, searchLog>>

\* handle_youtube_download under limiter.limit("5/minute"): the limit is
\* checked when the function is called, before its body runs
HandleYoutubeDownload(c, rawUrl, names, datas, lim) ==
    LET h == Hit(lim, <<c, "download">>, DownloadLimit, now)
        url == Strip(rawUrl)
    IN IF ~h.ok
       THEN /\ resp' = [op |-> "download_youtube", client |-> c, status |-> 429]
            /\ limits' = h.store
            /\ UNCHANGED <<now, fs, searchCache, listCache, pc, searchLog, engineLog>>
       ELSE IF url = <<>>
       THEN /\ resp' = [op |-> "download_youtube", client |-> c, status |-> 400]
            /\ limits' = h.store
            /\ UNCHANGED <<now, fs, searchCache, listCache, pc, searchLog, engineLog>>
       ELSE /\ DownloadYoutubeVideo(c, names, datas)
            /\ limits' = h.store
            /\ engineLog' = [engineLog EXCEPT ![c] = Append(@, now)]

----------------------------------------------------------------------------
(* Search gateway *)

SearchTimeout == 300

Missing == "<missing>"

\* what the provider can answer: an exception, or a list of items, each with
\* or without a title and a link
ProviderItems == {[title |-> "t", link |-> "l"], [title |-> Missing, link |-> "l"]}
ProviderAnswers ==
    {[raised |-> TRUE, items |-> <<>>], [raised |-> FALSE, items |-> <<>>]}
        \cup {[raised |-> FALSE, items |-> <<i>>] : i \in ProviderItems}

\* item.get(key, default)
Get(v, default) == IF v = Missing THEN default ELSE v

\* the body of search_youtube: the provider's items in the fixed result
\* shape, or the empty list when the provider raised
FormatResults(answer) ==
    IF answer.raised THEN <<>>
    ELSE [i \in 1..Len(answer.items) |->
            [title |-> Get(answer.items[i].title, "No title"),
             url   |-> Get(answer.items[i].link, "")]]

\* handle_youtube_search up to the cache lookup of the memoised
\* search_youtube: a blank query is answered at once, a cached one from the
\* cache; otherwise the worker goes on to call the provider
SearchBegin(w, rawQuery, lim) ==
    LET query == Strip(rawQuery)
    IN /\ pc[w].at = "idle"
       /\ IF query = <<>>
          THEN /\ resp' = [op |-> "search_youtube", query |-> query,
                           status |-> 200, results |-> <<>>, provider |-> FALSE]
               /\ UNCHANGED <<pc, searchLog>>
          ELSE IF CacheHit(searchCache, query, now)
          THEN /\ resp' = [op |-> "search_youtube", query |-> query,
                           status |-> 200, results |-> searchCache[query].value,
                           provider |-> FALSE]
               /\ searchLog' = [searchLog EXCEPT ![query] = Append(@,
                      [issued |-> now, provider |-> FALSE,
                       results |-> searchCache[query].value])]
               /\ UNCHANGED pc
          ELSE /\ pc' = [pc EXCEPT ![w] =
                      [at |-> "provider", query |-> query, issued |-> now]]
               /\ resp' = [op |-> "search_youtube", query |-> query,
                           status |-> 0]
               /\ UNCHANGED searchLog
       /\ limits' = lim
       /\ UNCHANGED <<now, fs, searchCache, listCache, engineLog>>

Idle == [at |-> "idle", query |-> <<>>, issued |-> 0]

\* the rest of the memoised call: the provider answers, the result is stored
\* for 300 seconds and returned
SearchProvider(w) ==
    /\ pc[w].at = "provider"
    /\ \E answer \in ProviderAnswers :
          LET query == pc[w].query
              results == FormatResults(answer)
          IN /\ searchCache' = [searchCache EXCEPT ![query] =
                    [present |-> TRUE, expires |-> now + SearchTimeout,
                     value |-> results]]
             /\ resp' = [op |-> "search_youtube", query |-> query,
                         status |-> 200, results |-> results, provider |-> TRUE]
             /\ searchLog' = [searchLog EXCEPT ![query] = Append(@,
                    [issued |-> pc[w].issued, provider |-> TRUE,
                     results |-> results])]
    /\ pc' = [pc EXCEPT ![w] = Idle]
    /\ UNCHANGED <<now, fs, listCache, limits, engineLog>>

----------------------------------------------------------------------------
(* Request dispatcher *)

Actions == {"search_youtube", "download_youtube", "download_file",
            "zip_and_download", "get_files"}

\* the else branch of handle_post_request without its status code
InvalidActionNoStatus(action, lim) ==
    /\ action \notin Actions
    /\ resp' = [op |-> "invalid_action", action |-> action, status |-> 200]
    /\ limits' = lim
    /\ UNCHANGED <<now, fs, searchCache, listCache, pc, searchLog, engineLog>>

\* the else branch of handle_post_request
InvalidAction(action, lim) ==
    /\ action \notin Actions
    /\ resp' = [op |-> "invalid_action", action |-> action, status |-> 400]
    /\ limits' = lim
    /\ UNCHANGED <<now, fs, searchCache, listCache, pc, searchLog, engineLog>>

\* the limiter's before_request check of a route under the default limit:
\* a refused request is answered 429 and its view function does not run
Refused(c, action, lim) ==
    /\ resp' = [op |-> "refused", client |-> c, action |-> action, status |-> 429]
    /\ limits' = lim
    /\ UNCHANGED <<now, fs, searchCache, listCache, pc, searchLog, engineLog>>

\* request.form.get("action") of a request without the field
NoAction == "<none>"

\* handle_post_request
HandlePostRequest(c, w, action, arg, lim) ==
    CASE action = "search_youtube" -> SearchBegin(w, arg, lim)
      [] action = "download_youtube" ->
            HandleYoutubeDownload(c, arg, {<<"a">>}, {"x"}, lim)
      [] action = "download_file" -> HandleFileDownload(arg, lim)
      [] action = "zip_and_download" -> HandleZipDownload(arg, lim)
      [] action = "get_files" -> HandleGetFiles(arg, lim)
      [] OTHER -> InvalidAction(action, lim)

\* index on a POST request, behind the limiter's default limit on the route
Index(c, w, action, arg) ==
    LET h == Hit(limits, <<c, "index">>, DefaultLimit, now)
    IN IF h.ok THEN HandlePostRequest(c, w, action, arg, h.store)
       ELSE Refused(c, action, h.store)

\* the entries of a history of times that are less than a minute old at t
RECURSIVE Recent(_, _)
Recent(log, t) ==
    IF log # <<>> /\ Head(log) + Minute <= t THEN Recent(Tail(log), t) ELSE log

\* the clock advances; the limiter storage drops the windows that ended, the
\* engine history the runs that are a minute old
Tick(d) ==
    /\ now' = now + d
    /\ limits' = Expire(limits, now + d)
    /\ engineLog' = [c \in DOMAIN engineLog |-> Recent(engineLog[c], now + d)]
    /\ resp' = [op |-> "none", status |-> 0]
    /\ UNCHANGED <<fs, searchCache, listCache, pc, searchLog>>

----------------------------------------------------------------------------
(* Initial states and request inputs *)

Clients == {"c1", "c2"}
Workers == {"w1", "w2"}

\* search queries as the cache keys them, and as clients send them
Queries == { <<"q">> }
RawQueries == { <<>>, <<" ">>, <<"q">>, <<"q", " ">> }

\* filenames clients ask for: direct children, a directory, a missing name,
\* names with a separator, a name that leaves the managed directory, an
\* absolute name, a padded and a blank name
ReqNames ==
    { <<"a">>, <<"A", "b">>, <<"b">>, <<"d">>, <<"z">>,
      <<"d", "/", "b">>, <<".", ".", "/", "s">>, <<"d", "/", ".", ".", "/", "a">>,
      <<"/", "h", "/", "s">>, <<" ", "a">>, <<" ">>, <<>> }

\* filters of the listing
Filters == { <<>>, <<"a">>, <<"A">>, <<"b">>, <<" ", "a">>, <<" ">>, <<"a", "b">>, <<"z">> }

Urls == { <<>>, <<" ">>, <<"u">> }

\* the time the server starts at
Start == 2 * Day

\* how many days the clock may advance
MaxDays == 2

\* how many hits one limiter window may count before the client stops
MaxHits == 7

\* the managed directory the server finds: an optional subdirectory with a
\* file in it, an optional two days old file that may be undeletable, and a
\* file next to the managed directory
InitFs(sub, old) ==
    [p \in Paths |->
        IF p = HomeDir \/ p = DOWNLOAD_FOLDER THEN DirEntry
        ELSE IF p = SecretPath THEN FileEntry(0, "secret", FALSE)
        ELSE IF p = Child(SubDirName) /\ sub THEN DirEntry
        ELSE IF p = NestedPath /\ sub THEN FileEntry(0, "nested", FALSE)
        ELSE IF p = Child(<<"b">>) /\ old # "none"
             THEN FileEntry(0, "old", old = "locked")
        ELSE NoEntry]

InitWith(dirs) ==
    /\ now = Start
    /\ fs \in dirs
    /\ searchCache = [q \in Queries |-> NoCached]
    /\ listCache = [q \in Filters |-> NoCached]
    /\ limits = [k \in Clients \X Scopes |-> NoWindow]
    /\ pc = [w \in Workers |-> Idle]
    /\ resp = [op |-> "none", status |-> 0]
    /\ searchLog = [q \in Queries |-> <<>>]
    /\ engineLog = [c \in Clients |-> <<>>]

Init == InitWith({InitFs(sub, old) : sub \in BOOLEAN, old \in {"none", "free", "locked"}})

\* a managed directory with a subdirectory and an old file that can be deleted
InitOne == InitWith({InitFs(TRUE, "free")})

----------------------------------------------------------------------------
(* The file repository on its own: the requests the limiter let through, *)
(* and the download engine writing into the managed directory            *)

ZipInputs ==
    {<<>>} \cup {<<n>> : n \in ReqNames}
        \cup { << <<"a">>, <<"z">> >>, << <<"a">>, <<".", ".", "/", "s">> >>,
               << <<"d", "/", "b">>, <<"b">> >>, << <<"z">>, <<"d">> >> }

FetchFile == \E raw \in ReqNames : HandleFileDownload(raw, limits)

ZipFiles == \E names \in ZipInputs : HandleZipDownload(names, limits)

GetFiles(filters) == \E q \in filters : HandleGetFiles(q, limits)

Cleanup(days) == \E d \in days : ApiCleanup(d, limits)

Engine(datas) ==
    /\ DownloadYoutubeVideo("c1", EngineNames, datas)
    /\ UNCHANGED <<limits, engineLog>>

TickDay == now + Day <= Start + MaxDays * Day /\ Tick(Day)

\* fetching and archiving
NextFetch == FetchFile \/ ZipFiles \/ Engine(Data)

SpecFetch == Init /\ [][NextFetch]_vars

\* listing and purging
NextPurge == GetFiles(Filters) \/ Cleanup({0, 1, 2, DefaultDays}) \/ Engine({"x"}) \/ TickDay

SpecPurge == Init /\ [][NextPurge]_vars

----------------------------------------------------------------------------
(* Properties of fetching and archiving (SpecFetch) *)

Range(seq) == {seq[i] : i \in 1..Len(seq)}

HasSeparator(name) == \E i \in 1..Len(name) : name[i] = Slash

\* a resolved path that is not below the managed directory
Outside(p) ==
    ~(Len(p) > Len(DOWNLOAD_FOLDER)
        /\ SubSeq(p, 1, Len(DOWNLOAD_FOLDER)) = DOWNLOAD_FOLDER)

\* the paths of the regular files directly under the managed directory
DirectPaths(f) == {Child(n) : n \in DirectFiles(f)}

\* C1: a download_file request whose name contains a path separator or
\* resolves outside the managed directory returns no file content, and one
\* naming an existing regular direct child returns exactly that file's bytes.
C1_Claim ==
    resp.op = "download_file" =>
        /\ (HasSeparator(resp.arg) \/ Outside(Join(fs, resp.arg)))
              => resp.status # 200
        /\ resp.arg \in DirectFiles(fs)
              => resp.status = 200 /\ resp.body = fs[Child(resp.arg)].data

\* C2: the entries of a returned archive are exactly the submitted names that
\* resolve to regular files directly under the managed directory; no entry
\* holds a file from outside it or from a subdirectory.
C2_Claim ==
    (resp.op = "zip_and_download" /\ resp.status = 200) =>
        /\ {e.path : e \in Range(resp.entries)}
              = {Join(fs, n) : n \in Range(resp.names)} \cap DirectPaths(fs)
        /\ \A e \in Range(resp.entries) :
              e.path \in DirectPaths(fs) /\ e.data = fs[e.path].data

\* C9: zip_and_download without names fails with status 400 and no archive;
\* with names none of which resolves to an existing file it succeeds with an
\* archive of zero entries.
C9_EmptySelection ==
    resp.op = "zip_and_download" =>
        /\ resp.names = <<>> =>
              resp.status = 400 /\ "entries" \notin DOMAIN resp
        /\ (resp.names # <<>> /\ \A n \in Range(resp.names) : ~PathIsFile(fs, n))
              => resp.status = 200 /\ resp.entries = <<>>

C9_Witness ==
    /\ resp.op = "zip_and_download"
    /\ Len(resp.names) = 2
    /\ \A n \in Range(resp.names) : ~PathIsFile(fs, n)
    /\ resp.status = 200
    /\ resp.entries = <<>>
    /\ DirectFiles(fs) # {}

----------------------------------------------------------------------------
(* Properties of listing and purging (SpecPurge) *)

Names(files) == {files[i].filename : i \in 1..Len(files)}

\* C8 as stated: get_files without a filter returns one record per regular
\* file and none per subdirectory; with a filter f, exactly the records whose
\* name contains f case-insensitively.
C8_Claim ==
    resp.op = "get_files" =>
        /\ Len(resp.files) = Cardinality(Names(resp.files))
        /\ Names(resp.files) =
              IF resp.arg = <<>> THEN DirectFiles(fs)
              ELSE {n \in DirectFiles(fs) : Contains(Lower(resp.arg), Lower(n))}

\* C8 amended: the filter is stripped of leading and trailing whitespace
\* before it is applied, and a filter that is blank after stripping keeps all
\* N records; a filter never adds a record.
C8_Listing ==
    resp.op = "get_files" =>
        LET q == Strip(Lower(resp.arg))
        IN /\ Len(resp.files) = Cardinality(Names(resp.files))
           /\ Names(resp.files) \subseteq DirectFiles(fs)
           /\ Names(resp.files) =
                 IF q = <<>> THEN DirectFiles(fs)
                 ELSE {n \in DirectFiles(fs) : Contains(q, Lower(n))}
           /\ \A i \in 1..Len(resp.files) :
                 resp.files[i].modified = fs[Child(resp.files[i].filename)].mtime

C8_Witness ==
    /\ resp.op = "get_files"
    /\ resp.arg = <<" ", "a">>
    /\ SubDirs(fs) # {}
    /\ Names(resp.files) = { <<"a">>, <<"A", "b">> }
    /\ <<"b">> \in DirectFiles(fs)

\* C3: a purge with days = d deletes no file modified within the last d days;
\* every older regular file whose deletion succeeds is removed and named in
\* `deleted`; every older file whose deletion fails adds exactly one entry to
\* `errors`, still exists, and does not stop the others from being processed.
C3_Purge ==
    [][resp'.op = "cleanup" =>
        LET cutoff == now - resp'.days * Day
            old == {n \in DirectFiles(fs) : fs[Child(n)].mtime < cutoff}
            removable == {n \in old : ~fs[Child(n)].locked}
        IN /\ \A p \in Paths :
                 (p \notin {Child(n) : n \in removable}) => fs'[p] = fs[p]
           /\ \A n \in removable : fs'[Child(n)].kind = "none"
           /\ Range(resp'.deleted) = removable
           /\ Len(resp'.deleted) = Cardinality(removable)
           /\ Range(resp'.errors) = {<<"unlink failed", n>> : n \in old \ removable}
           /\ Len(resp'.errors) = Cardinality(old \ removable)
    ]_vars

C3_Witness ==
    /\ resp.op = "cleanup"
    /\ Len(resp.deleted) = 1
    /\ Len(resp.errors) = 1
    /\ fs[Child(<<"b">>)].kind = "file"
    /\ \E n \in DirectFiles(fs) : fs[Child(n)].mtime >= now - resp.days * Day

----------------------------------------------------------------------------
(* The cached listing next to purges and downloads (SpecList) *)

\* how many minutes the clock may advance
MaxMinutes == 1

ApiFiles == \E q \in { <<>>, <<"b">> } : ApiGetFiles(q, limits)

TickMinute == now + Minute <= Start + MaxMinutes * Minute /\ Tick(Minute)

NextList ==
    ApiFiles \/ GetFiles({<<>>}) \/ Cleanup({0}) \/ Engine({"x"}) \/ TickMinute

SpecList == Init /\ [][NextList]_vars

\* C6: every record of a listing response, cached or not, is one regular file
\* that is a direct child of the managed directory when the response is made.
C6_Claim ==
    resp.op \in {"get_files", "api_files"} =>
        /\ Len(resp.files) = Cardinality(Names(resp.files))
        /\ Names(resp.files) \subseteq DirectFiles(fs)

\* C7: an uncached GET /api/files?q=s holds exactly the regular direct
\* children whose names contain s case-insensitively, as list(s) does.
C7_Claim ==
    (resp.op = "api_files" /\ ~resp.cached) =>
        /\ Names(resp.files) =
              {n \in DirectFiles(fs) : Contains(Lower(resp.arg), Lower(n))}
        /\ Names(resp.files) = Listed(fs, Strip(Lower(resp.arg)))

----------------------------------------------------------------------------
(* The download rate limit (SpecRate) *)

\* how far the clock may advance, in steps of half a minute
MaxSteps == 2

RateStep == Minute \div 2

\* how many hits a window of the second client may count
MaxOtherHits == 2

RateDownload ==
    \E c \in Clients, u \in { <<>>, <<"u">> } :
        /\ Current(limits, <<c, "download">>, now)
              < (IF c = "c1" THEN MaxHits ELSE MaxOtherHits)
        /\ HandleYoutubeDownload(c, u, {<<"a">>}, {"x"}, limits)

TickRate == now + RateStep <= Start + MaxSteps * RateStep /\ Tick(RateStep)

NextRate == RateDownload \/ TickRate

SpecRate == InitOne /\ [][NextRate]_vars

\* C4: of one client's download_youtube requests at most 5 reach the download
\* engine within any one-minute window (engineLog holds the runs of the last
\* minute), so the 6th request within a minute of the first is refused.
C4_Claim == \A c \in Clients : Len(engineLog[c]) <= DownloadLimit

----------------------------------------------------------------------------
(* The memoised search under two worker threads (SpecSearch) *)

\* how many searches of one query are followed
MaxSearches == 3

\* how far the clock may advance, in steps of a third of the cache timeout
MaxSearchSteps == 4

SearchStep == SearchTimeout \div 3

InFlight(q) == Cardinality({w \in Workers : pc[w].at = "provider" /\ pc[w].query = q})

Search ==
    \E w \in Workers, raw \in RawQueries :
        /\ Strip(raw) \in Queries =>
              Len(searchLog[Strip(raw)]) + InFlight(Strip(raw)) < MaxSearches
        /\ SearchBegin(w, raw, limits)

Provider == \E w \in Workers : SearchProvider(w)

TickSearch ==
    now + SearchStep <= Start + MaxSearchSteps * SearchStep /\ Tick(SearchStep)

NextSearch == Search \/ Provider \/ TickSearch

SpecSearch == Init /\ [][NextSearch]_vars

\* C5: of the searches with one query issued within the 300 seconds of the
\* first, concurrent ones included, only the first invokes the provider and
\* all the others are answered with the first one's result.
C5_Claim ==
    \A q \in Queries :
        \A i \in 2..Len(searchLog[q]) :
            LET first == searchLog[q][1]
                later == searchLog[q][i]
            IN (later.issued - first.issued < SearchTimeout
                    /\ first.issued - later.issued < SearchTimeout)
                  => ~later.provider /\ later.results = first.results

----------------------------------------------------------------------------
(* POST / as a whole: the default limit, the dispatch, the handlers *)

\* how many hits the window of the route may count before the client stops
MaxIndexHits == 11

CanPost(c) == Current(limits, <<c, "index">>, now) < MaxIndexHits

PostSearch ==
    \E raw \in { <<>>, <<"q">> } :
        /\ CanPost("c1")
        /\ Len(searchLog[<<"q">>]) + InFlight(<<"q">>) < 1
        /\ Index("c1", "w1", "search_youtube", raw)

PostDownload ==
    /\ CanPost("c1")
    /\ Current(limits, <<"c1", "download">>, now) < MaxHits
    /\ Index("c1", "w1", "download_youtube", <<"u">>)

PostFile ==
    \E raw \in { <<"a">>, <<"d", "/", "b">> } :
        CanPost("c1") /\ Index("c1", "w1", "download_file", raw)

PostZip ==
    \E names \in { <<>>, << <<"a">> >> } :
        CanPost("c1") /\ Index("c1", "w1", "zip_and_download", names)

PostList ==
    \E q \in { <<>>, <<"a">> } :
        CanPost("c1") /\ Index("c1", "w1", "get_files", q)

PostInvalid ==
    \E action \in {NoAction, "delete_all"} :
        CanPost("c1") /\ Index("c1", "w1", action, <<>>)

Next == PostSearch \/ PostDownload \/ PostFile \/ PostZip \/ PostList
          \/ PostInvalid \/ Provider \/ TickMinute

Spec == InitOne /\ [][Next]_vars

BadAction(r) == r.op \in {"invalid_action", "refused"} /\ r.action \notin Actions

====
